---------------------------- MODULE Spec2Model ----------------------------
(***************************************************************************)
(* A model of the MAX31856 thermocouple driver (max31856.py): the register *)
(* mirror self.regs, the chip-select pin, the SPI bus as the driver uses   *)
(* it, and the decoders temperature / cold_junction / faults; and of the   *)
(* polling loop of thermo_tx.py that uses the driver.                      *)
(*                                                                         *)
(* Every driver method is an operator on a machine record                  *)
(*   [regs, origin, cs, spi, chip, bus, err, ret]                          *)
(* and returns the record after the method ran.  err # "none" means an     *)
(* exception is propagating: the statements after the raising one did not  *)
(* run.  bus is the list of what the pin and the bus saw during the        *)
(* current public operation, in order; ret is what the method returned.    *)
(* origin runs parallel to regs: for each byte of the mirror, the number   *)
(* of the bus read whose bytes were stored there, 0 for a byte the driver  *)
(* assigned itself.                                                        *)
(***************************************************************************)
EXTENDS Integers, Sequences, FiniteSets, TLC

(***************************************************************************)
(* Bytes and Python's integer operators on them.                           *)
(***************************************************************************)
Byte == 0..255

RECURSIVE BitAndN(_, _, _)
BitAndN(a, b, n) ==
    IF n = 0 THEN 0
    ELSE (IF a % 2 = 1 /\ b % 2 = 1 THEN 1 ELSE 0)
         + 2 * BitAndN(a \div 2, b \div 2, n - 1)

RECURSIVE BitOrN(_, _, _)
BitOrN(a, b, n) ==
    IF n = 0 THEN 0
    ELSE (IF a % 2 = 1 \/ b % 2 = 1 THEN 1 ELSE 0)
         + 2 * BitOrN(a \div 2, b \div 2, n - 1)

\* a & b where a is a byte; b may be negative (Python's ~x): the low eight
\* bits of its two's complement decide, b % 256 in TLA+ being non-negative.
BitAnd(a, b) == BitAndN(a % 256, b % 256, 8)

\* a | b on bytes.
BitOr(a, b) == BitOrN(a, b, 8)

\* Python's ~x on an int.
PyInvert(x) == (-x) - 1

Min(a, b) == IF a < b THEN a ELSE b
Max(a, b) == IF a > b THEN a ELSE b

\* s[i:j] of a bytearray held as a 1-based sequence (i, j are 0-based and
\* clamped at len(s), as Python clamps them).
PySlice(s, i, j) ==
    LET lo == Min(i, Len(s))
        hi == Max(Min(j, Len(s)), lo)
    IN  SubSeq(s, lo + 1, hi)

\* A mutant of PySliceAssign: the bytes land at the start of the sequence.
PySliceAssignAtZero(s, i, j, v) ==
    v \o SubSeq(s, Min(Len(v), Len(s)) + 1, Len(s))

\* s[i:j] = v : the slice is replaced by v, whatever v's length.
PySliceAssign(s, i, j, v) ==
    LET lo == Min(i, Len(s))
        hi == Max(Min(j, Len(s)), lo)
    IN  SubSeq(s, 1, lo) \o v \o SubSeq(s, hi + 1, Len(s))

\* bytearray(n)
Zeros(n) == [k \in 1..n |-> 0]

(***************************************************************************)
(* Register addresses and bits (max31856.py lines 17-56).                  *)
(***************************************************************************)
CR0_REG == 0
CR0_AUTOCONVERT == 128
CR0_ONESHOT == 64
CR0_OCFAULT0 == 16
CR0_FAULTCLR == 2
CR0_50HZ == 1
CR1_REG == 1
CR1_AVGSEL16 == 64
MASK_REG == 2
CJTH_REG == 10
CJTL_REG == 11
LTCBH_REG == 12
LTCBL_REG == 14
SR_REG == 15

CR0_DEFAULT == BitOr(BitOr(CR0_OCFAULT0, CR0_FAULTCLR),
                     BitOr(CR0_AUTOCONVERT, CR0_50HZ))
CR1_DEFAULT == CR1_AVGSEL16

\* The number of registers of the chip, and of bytes of the mirror.
NREGS == 16

(***************************************************************************)
(* The tables.  A Python dict is held as the sequence of its items in the  *)
(* order of the literal.                                                   *)
(***************************************************************************)
faults_table ==
    << <<1, "open">>, <<2, "OV/UV">>, <<4, "tclow">>, <<8, "tchigh">>,
       <<16, "cjlow">>, <<32, "cjhigh">>, <<64, "tcrange">>,
       <<128, "cjrange">> >>

tctypes ==
    [B |-> 0, E |-> 1, J |-> 2, K |-> 3, N |-> 4, R |-> 5, S |-> 6, T |-> 7,
     VG8 |-> 8, VG32 |-> 12]

ValidTypes == DOMAIN tctypes

(***************************************************************************)
(* What the pin and the bus see.                                           *)
(***************************************************************************)
EvCs(v) == [ev |-> "cs", a |-> v, ok |-> TRUE, tx |-> <<>>, rx |-> <<>>]
EvSpiInit == [ev |-> "spi.init", a |-> 0, ok |-> TRUE, tx |-> <<>>, rx |-> <<>>]
EvWrite(b, ok) == [ev |-> "spi.write", a |-> 0, ok |-> ok, tx |-> b, rx |-> <<>>]
EvXfer(b, r, ok) ==
    [ev |-> "spi.write_readinto", a |-> 0, ok |-> ok, tx |-> b, rx |-> r]
EvCall(name) == [ev |-> name, a |-> 0, ok |-> TRUE, tx |-> <<>>, rx |-> <<>>]

\* The SPI mode __init__ asks for: baudrate, polarity, phase.
SpiMode == <<1000000, 0, 1>>
\* The mode thermo_tx.py opens the bus with before it builds the driver.
SpiOpened == <<1000000, 1, 0>>

(***************************************************************************)
(* The chip behind the bus.  A write transaction stores its payload in the *)
(* addressed registers, the address advancing by one per byte; registers   *)
(* 0x0C..0x0F are read-only.  A read transaction returns the registers     *)
(* from the address on.  `glitch` is what the wire does to a read: "ok"    *)
(* passes the chip's bytes, "zeros" is a line stuck low.  The byte clocked  *)
(* in while the address goes out is 0xFF on a working line.                *)
(***************************************************************************)
Glitches == {"ok", "zeros"}

ChipWrite(chip, b) ==
    [a \in 0..(NREGS - 1) |->
        LET k == a - (b[1] % 128)
        IN  IF k >= 0 /\ k < Len(b) - 1 /\ a < LTCBH_REG
            THEN b[k + 2] ELSE chip[a]]

ChipRead(chip, start, count, glitch) ==
    [k \in 1..(count + 1) |->
        IF glitch = "zeros" THEN 0
        ELSE IF k = 1 THEN 255
        ELSE chip[(start + k - 2) % NREGS]]


(***************************************************************************)
(* The driver's methods.  m is the machine record; fail says whether this  *)
(* call's bus transfer raises (the SPI object's OSError), glitch what the  *)
(* wire does to the bytes read.                                            *)
(***************************************************************************)
Log(m, e) == [m EXCEPT !.bus = Append(@, e)]

\* self.cs.value(v)
cs_value(m, v) == [Log(m, EvCs(v)) EXCEPT !.cs = v]

\* raise: the rest of the method, and of its callers, does not run.
Raise(m, kind) == [m EXCEPT !.err = kind]

\* A mutant of write_regs: chip-select is not driven back to 1.
write_regs_cs_held(m, start_addr, count, fail) ==
    LET m1 == cs_value(m, 0)
        b  == <<BitOr(start_addr, 128)>>
                 \o PySlice(m.regs, start_addr, start_addr + count)
    IN  IF fail
        THEN Raise(Log(m1, EvWrite(b, FALSE)), "OSError")
        ELSE [Log(m1, EvWrite(b, TRUE)) EXCEPT !.chip = ChipWrite(@, b)]

\* A mutant of write_regs: the address goes out without the write bit.
write_regs_bare_addr(m, start_addr, count, fail) ==
    LET m1 == cs_value(m, 0)
        b  == <<start_addr>>
                 \o PySlice(m.regs, start_addr, start_addr + count)
    IN  IF fail
        THEN Raise(Log(m1, EvWrite(b, FALSE)), "OSError")
        ELSE cs_value([Log(m1, EvWrite(b, TRUE))
                          EXCEPT !.chip = ChipWrite(@, b)], 1)

\* write_regs(start_addr, count): lines 126-133.
write_regs(m, start_addr, count, fail) ==
    LET m1 == cs_value(m, 0)
        b  == <<BitOr(start_addr, 128)>>
                 \o PySlice(m.regs, start_addr, start_addr + count)
    IN  IF fail
        THEN Raise(Log(m1, EvWrite(b, FALSE)), "OSError")
        ELSE cs_value([Log(m1, EvWrite(b, TRUE))
                          EXCEPT !.chip = ChipWrite(@, b)], 1)

\* The number the next bus read gets.  The reads of earlier calls are
\* numbered from 1 to at most NREGS (see Rank), those of the current call
\* by their place in its bus log: a later read has the greater number.
NextRead(m) == NREGS + Len(m.bus) + 1

\* A mutant of read_regs: the byte clocked in with the address is stored
\* too (b instead of b[1:]).
read_regs_keep_addr_byte(m, start_addr, count, fail, glitch) ==
    LET m1 == cs_value(m, 0)
        b  == <<start_addr>> \o Zeros(count)
        r  == ChipRead(m.chip, start_addr, count, glitch)
    IN  IF fail
        THEN Raise(Log(m1, EvXfer(b, <<>>, FALSE)), "OSError")
        ELSE [cs_value(Log(m1, EvXfer(b, r, TRUE)), 1)
                 EXCEPT !.regs = PySliceAssign(@, start_addr,
                                               start_addr + count, r),
                        !.origin = PySliceAssign(@, start_addr,
                                       start_addr + count,
                                       [k \in 1..Len(r) |-> NextRead(m)])]

\* A mutant of read_regs: chip-select is released before the transfer.
read_regs_early_release(m, start_addr, count, fail, glitch) ==
    LET m1 == cs_value(cs_value(m, 0), 1)
        b  == <<start_addr>> \o Zeros(count)
        r  == ChipRead(m.chip, start_addr, count, glitch)
    IN  IF fail
        THEN Raise(Log(m1, EvXfer(b, <<>>, FALSE)), "OSError")
        ELSE [Log(m1, EvXfer(b, r, TRUE))
                 EXCEPT !.regs = PySliceAssign(@, start_addr,
                                               start_addr + count, Tail(r))]

\* A mutant of read_regs: a transfer that raised is tried once more.
read_regs_retry(m, start_addr, count, fail, glitch) ==
    LET m1 == cs_value(m, 0)
        b  == <<start_addr>> \o Zeros(count)
        r  == ChipRead(m.chip, start_addr, count, glitch)
        m2 == IF fail THEN Log(m1, EvXfer(b, <<>>, FALSE)) ELSE m1
    IN  [cs_value(Log(m2, EvXfer(b, r, TRUE)), 1)
            EXCEPT !.regs = PySliceAssign(@, start_addr,
                                          start_addr + count, Tail(r))]

\* read_regs(start_addr, count): lines 135-143.
read_regs(m, start_addr, count, fail, glitch) ==
    LET m1 == cs_value(m, 0)
        b  == <<start_addr>> \o Zeros(count)
        r  == ChipRead(m.chip, start_addr, count, glitch)
    IN  IF fail
        THEN Raise(Log(m1, EvXfer(b, <<>>, FALSE)), "OSError")
        ELSE [cs_value(Log(m1, EvXfer(b, r, TRUE)), 1)
                 EXCEPT !.regs = PySliceAssign(@, start_addr,
                                               start_addr + count, Tail(r)),
                        !.origin = PySliceAssign(@, start_addr,
                                       start_addr + count,
                                       [k \in 1..Len(Tail(r)) |-> NextRead(m)])]

\* A mutant of read_data: the status register is left out of the read.
read_data_five(m, fail, glitch) ==
    read_regs(Log(m, EvCall("read_data")), CJTH_REG, 5, fail, glitch)

\* A mutant of read_data: the cold-junction bytes and the thermocouple
\* bytes are fetched by two reads.
read_data_split(m, fail, glitch) ==
    LET m1 == read_regs(Log(m, EvCall("read_data")), CJTH_REG, 2, fail,
                        glitch)
    IN  IF m1.err # "none" THEN m1
        ELSE read_regs(m1, LTCBH_REG, 4, fail, glitch)

\* read_data(): lines 145-149.
read_data(m, fail, glitch) ==
    read_regs(Log(m, EvCall("read_data")), CJTH_REG, 6, fail, glitch)

\* The names the module max31856.py binds by import (lines 7-15): struct,
\* OrderedDict and, without ustruct, const.  `time` is not among them.
ModuleImports == {"struct", "OrderedDict"}

\* time.sleep(200) at line 156: the name `time` is looked up in the module.
time_sleep(m) ==
    IF "time" \in ModuleImports
    THEN Log(m, EvCall("time.sleep"))
    ELSE Raise(m, "NameError")

\* one_shot(): lines 151-157.
one_shot(m, failW, failR, glitch) ==
    LET m1 == [m EXCEPT !.regs[CR0_REG + 1] =
                  BitOr(BitAnd(@, PyInvert(CR0_AUTOCONVERT)), CR0_ONESHOT),
                        !.origin[CR0_REG + 1] = 0]
        m2 == write_regs(m1, CR0_REG, 1, failW)
        m3 == IF m2.err = "none" THEN time_sleep(m2) ELSE m2
    IN  IF m3.err = "none" THEN read_data(m3, failR, glitch) ELSE m3

\* A mutant of MergeCR1: the caller's low nibble is not masked off.
MergeCR1NoMask(cr1, code) == BitOr(cr1, code)

\* A mutant of MergeCR1: the wrong nibble of the caller's byte is kept.
MergeCR1LowMask(cr1, code) == BitOr(BitAnd(cr1, 15), code)

\* (cr1 & 0xF0) | tctypes[tc_type]: line 120.
MergeCR1(cr1, code) == BitOr(BitAnd(cr1, 240), code)

\* __init__(spi_obj, cs_pin, tc_type, cr0, cr1): lines 101-124.  fail is the
\* number of the bus transfer that raises (0: none), g1 and g2 are the
\* glitches of the two reads.
Max31856_init(m, tc_type, cr0, cr1, fail, g1, g2) ==
    LET m1 == [Log(cs_value(m, 1), EvSpiInit) EXCEPT !.spi = SpiMode]
        m2 == read_regs([m1 EXCEPT !.regs = Zeros(NREGS),
                                   !.origin = Zeros(NREGS)],
                        CR0_REG, NREGS, fail = 1, g1)
        m3 == [m2 EXCEPT !.regs[CR0_REG + 1] = cr0,
                         !.origin[CR0_REG + 1] = 0]
        m4 == IF tc_type \in DOMAIN tctypes
              THEN [m3 EXCEPT !.regs[CR1_REG + 1] =
                                 MergeCR1(cr1, tctypes[tc_type]),
                              !.regs[MASK_REG + 1] = 0,
                              !.origin[CR1_REG + 1] = 0,
                              !.origin[MASK_REG + 1] = 0]
              ELSE Raise(m3, "KeyError")
        m5 == IF m4.err = "none" THEN write_regs(m4, CR0_REG, 3, fail = 2)
              ELSE m4
    IN  IF m2.err # "none" THEN m2
        ELSE IF m5.err # "none" THEN m5
        ELSE read_regs(m5, CR0_REG, 3, fail = 3, g2)


(***************************************************************************)
(* struct.unpack and the decoders.                                         *)
(***************************************************************************)
\* A mutant of UnpackBE16: the two bytes are read as unsigned ('>H').
UnpackBE16Unsigned(b) == b[1] * 256 + b[2]

\* struct.unpack('>h', b)[0] of two bytes: big-endian, two's complement.
UnpackBE16(b) == (IF b[1] >= 128 THEN b[1] - 256 ELSE b[1]) * 256 + b[2]

\* A mutant of UnpackBE32: the four bytes are read little-endian ('<i').
UnpackLE32(b) ==
    (IF b[4] >= 128 THEN b[4] - 256 ELSE b[4]) * 16777216
        + b[3] * 65536 + b[2] * 256 + b[1]

\* struct.unpack('>i', b)[0] of four bytes.
UnpackBE32(b) ==
    (IF b[1] >= 128 THEN b[1] - 256 ELSE b[1]) * 16777216
        + b[2] * 65536 + b[3] * 256 + b[4]

\* The digits, base 10^4 and least significant first, of 9.53674316406e-7
\* in units of 1e-18: 953674316406 = 9536 * 10^8 + 7431 * 10^4 + 6406.
TempScaleDigits == <<6406, 7431, 9536>>

\* |t| in three digits base 10^4, least significant first, for a signed
\* 32-bit t; computed without forming -t, which 32 bits cannot hold for
\* t = -2^31.
AbsDigits(t) ==
    LET q    == t \div 10000
        r    == t % 10000
        low  == IF t >= 0 \/ r = 0 THEN r ELSE 10000 - r
        rest == IF t >= 0 THEN q ELSE IF r = 0 THEN -q ELSE (-q) - 1
    IN  <<low, rest % 10000, rest \div 10000>>

\* t * 9.53674316406e-7 (line 166) as the exact decimal product: sign is
\* -1, 0 or 1 and digits are the six base-10^4 digits of |product| in
\* units of 1e-18, most significant first.  Python rounds this product to
\* the nearest double, a relative change below 2^-52.
ScaleTemp(t) ==
    LET a  == AbsDigits(t)
        c  == TempScaleDigits
        s0 == a[1] * c[1]
        s1 == a[1] * c[2] + a[2] * c[1] + s0 \div 10000
        s2 == a[1] * c[3] + a[2] * c[2] + a[3] * c[1] + s1 \div 10000
        s3 == a[2] * c[3] + a[3] * c[2] + s2 \div 10000
        s4 == a[3] * c[3] + s3 \div 10000
    IN  [sign   |-> IF t < 0 THEN -1 ELSE IF t = 0 THEN 0 ELSE 1,
         digits |-> <<s4 \div 10000, s4 % 10000, s3 % 10000, s2 % 10000,
                      s1 % 10000, s0 % 10000>>]

\* A decimal of ScaleTemp in whole millionths of a degree, cut toward zero.
MicroDegrees(d) ==
    d.sign * ((d.digits[1] * 10000 + d.digits[2]) * 10000 + d.digits[3])

\* A mutant of temperature: the chip is read whatever read_chip says.
temperature_always_refresh(m, read_chip, fail, glitch) ==
    LET m1 == read_data(m, fail, glitch)
        b  == PySlice(m1.regs, LTCBH_REG, LTCBH_REG + 4)
    IN  IF m1.err # "none" THEN m1
        ELSE IF Len(b) # 4 THEN Raise(m1, "struct.error")
        ELSE [m1 EXCEPT !.ret = ScaleTemp(UnpackBE32(b))]

\* temperature(read_chip): lines 159-167.  The result is in m.ret.
temperature(m, read_chip, fail, glitch) ==
    LET m1 == IF read_chip THEN read_data(m, fail, glitch) ELSE m
        b  == PySlice(m1.regs, LTCBH_REG, LTCBH_REG + 4)
    IN  IF m1.err # "none" THEN m1
        ELSE IF Len(b) # 4 THEN Raise(m1, "struct.error")
        ELSE [m1 EXCEPT !.ret = ScaleTemp(UnpackBE32(b))]

\* cold_junction(read_chip): lines 188-194.  1 / 256.0 is a power of two,
\* so the float product is exact: the result is the fraction n / d.
cold_junction(m, read_chip, fail, glitch) ==
    LET m1 == IF read_chip THEN read_data(m, fail, glitch) ELSE m
        b  == PySlice(m1.regs, CJTH_REG, CJTL_REG + 1)
    IN  IF m1.err # "none" THEN m1
        ELSE IF Len(b) # 2 THEN Raise(m1, "struct.error")
        ELSE [m1 EXCEPT !.ret = [n |-> UnpackBE16(b), d |-> 256]]

(***************************************************************************)
(* faults.items(): the order in which a plain dict yields its items is the *)
(* runtime's.  CPython (3.7 on) yields them in the order of the literal.   *)
(* MicroPython's dict is an open-addressing hash table of as many slots as *)
(* the literal has items; a small int hashes to itself, a colliding key    *)
(* takes the next free slot, and iteration walks the slots.                *)
(***************************************************************************)
Runtimes == {"cpython", "micropython"}

RECURSIVE ProbeSlot(_, _)
ProbeSlot(slots, pos) ==
    IF slots[pos + 1] = <<>> THEN pos
    ELSE ProbeSlot(slots, (pos + 1) % Len(slots))

RECURSIVE HashInsert(_, _, _)
HashInsert(slots, items, k) ==
    IF k > Len(items) THEN slots
    ELSE LET pos == ProbeSlot(slots, items[k][1] % Len(slots))
         IN  HashInsert([slots EXCEPT ![pos + 1] = items[k]], items, k + 1)

DictItems(items, runtime) ==
    IF runtime = "cpython" THEN items
    ELSE HashInsert([k \in 1..Len(items) |-> <<>>], items, 1)

\* '+'.join(fl)
RECURSIVE Join(_)
Join(fl) ==
    IF fl = <<>> THEN ""
    ELSE IF Len(fl) = 1 THEN fl[1]
    ELSE fl[1] \o "+" \o Join(Tail(fl))

\* The loop of lines 179-182 over the items from the k-th on.
RECURSIVE FaultList(_, _, _)
FaultList(items, f, k) ==
    IF k > Len(items) THEN <<>>
    ELSE (IF BitAnd(f, items[k][1]) # 0 THEN <<items[k][2]>> ELSE <<>>)
         \o FaultList(items, f, k + 1)

\* faults(read_chip): lines 169-186.
faults(m, read_chip, fail, glitch, runtime) ==
    LET m1 == IF read_chip THEN read_data(m, fail, glitch) ELSE m
    IN  IF m1.err # "none" THEN m1
        ELSE IF Len(m1.regs) < SR_REG + 1 THEN Raise(m1, "IndexError")
        ELSE LET f == m1.regs[SR_REG + 1]
             IN  IF f = 0 THEN [m1 EXCEPT !.ret = <<0, "">>]
                 ELSE [m1 EXCEPT !.ret =
                     <<f, Join(FaultList(DictItems(faults_table, runtime),
                                         f, 1))>>]


(***************************************************************************)
(* The state: one driver object, the pin and the bus it was given, the     *)
(* chip, and what the last public call did.                                *)
(***************************************************************************)
VARIABLES
    pc,       \* "new": before __init__; "ready": constructed; "failed":
              \* __init__ raised
    args,     \* the arguments of __init__: [tc_type, cr0, cr1]
    runtime,  \* the Python the module runs on
    regs,     \* self.regs, the mirror (<<>> before it is allocated)
    cs,       \* the level of the chip-select pin
    spi,      \* the mode of the SPI object
    chip,     \* the chip's registers
    bus,      \* what the pin and the bus saw during the last call
    err,      \* the exception the last call raised, or "none"
    ret,      \* what the last call returned
    op,       \* the last call: [name, a, b] (a, b its arguments)
    nops,     \* the number of calls made on the constructed driver
    origin,   \* for each byte of the mirror, the bus read that stored it
    wire,     \* for each register address, the byte last carried by a
              \* completed bus transfer (-1: none yet)
    broken,   \* whether some bus transfer has raised so far
    mqtt      \* whether main() has an MQTT client (the WLAN was connected)

vars == <<pc, args, runtime, regs, cs, spi, chip, bus, err, ret, op, nops,
          origin, wire, broken, mqtt>>

\* The number of calls a behaviour makes on the constructed driver.
MaxOps == 2

NoRet == <<>>
NoOp == [name |-> "none", a |-> 0, b |-> 0]

\* The machine at the start of a call.
M == [regs |-> regs, origin |-> origin, cs |-> cs, spi |-> spi,
      chip |-> chip, bus |-> <<>>, err |-> "none", ret |-> NoRet]

\* The bytes a completed transfer carried, and the address of the first.
Carried(e) ==
    IF e.ev = "spi.write" /\ e.ok
    THEN [at |-> e.tx[1] % 128, bytes |-> Tail(e.tx)]
    ELSE IF e.ev = "spi.write_readinto" /\ e.ok
    THEN [at |-> e.tx[1] % 128, bytes |-> Tail(e.rx)]
    ELSE [at |-> 0, bytes |-> <<>>]

\* wire after the transfers of log, in their order.
RECURSIVE Replay(_, _)
Replay(w, log) ==
    IF log = <<>> THEN w
    ELSE LET c == Carried(Head(log))
         IN  Replay([k \in 1..NREGS |->
                        IF k - 1 >= c.at /\ k - 1 < c.at + Len(c.bytes)
                        THEN c.bytes[k - c.at] ELSE w[k]],
                    Tail(log))

NoWire == [k \in 1..NREGS |-> -1]

\* The numbers of the bus reads renumbered 1, 2, ... in their order: which
\* bytes came from the same read, and which read was later, is kept.
Rank(o) ==
    [k \in DOMAIN o |-> Cardinality({o[j] : j \in DOMAIN o} \cap 1..o[k])]

Raised(log) == \E i \in 1..Len(log) : ~log[i].ok

\* The state after a call that left the machine as m.
Done(m, name, a, b) ==
    /\ regs' = m.regs
    /\ origin' = Rank(m.origin)
    /\ wire' = Replay(wire, m.bus)
    /\ broken' = (broken \/ Raised(m.bus))
    /\ cs' = m.cs
    /\ spi' = m.spi
    /\ chip' = m.chip
    /\ bus' = m.bus
    /\ err' = m.err
    /\ ret' = m.ret
    /\ op' = [name |-> name, a |-> a, b |-> b]

Bool(x) == IF x THEN 1 ELSE 0

(***************************************************************************)
(* The chip's registers at power-on and the measurements it produces.      *)
(***************************************************************************)
\* The data registers 0x0A..0x0F: cold junction (2), thermocouple (3), SR.
Samples ==
    { <<25, 0, 0, 1, 134, 160>>,        \* 0x1900 | 0x000186A0
      <<247, 0, 255, 254, 121, 96>>,    \* 0xF700 | 0xFFFE7960
      <<25, 0, 1, 144, 0, 0>>,          \* 25.0 and 25.0 degrees, no fault
      <<127, 255, 127, 255, 224, 17>>,  \* open + cjlow
      <<25, 0, 1, 144, 0, 9>> }         \* open + tchigh

ChipImage(cfg, data) ==
    [a \in 0..(NREGS - 1) |->
        IF a < Len(cfg) THEN cfg[a + 1]
        ELSE IF a >= CJTH_REG THEN data[a - CJTH_REG + 1]
        ELSE 0]

\* The registers 0x00..0x09 after power-on, as the datasheet gives them:
\* CR0, CR1, MASK, then the fault thresholds and the cold-junction offset.
PowerOnConfig == <<0, 3, 255, 127, 192, 127, 255, 128, 0, 0>>

\* The chip after power-on and a first measurement.
PowerOn == { ChipImage(PowerOnConfig, <<25, 0, 1, 144, 0, 0>>) }

TypeOK ==
    /\ pc \in {"new", "ready", "failed"}
    /\ cs \in {0, 1}
    /\ nops \in 0..MaxOps
    /\ runtime \in Runtimes
    /\ regs \in Seq(Byte)
    /\ Len(origin) = Len(regs)
    /\ broken \in BOOLEAN
    /\ mqtt \in BOOLEAN

(***************************************************************************)
(* The calls.                                                              *)
(***************************************************************************)
Construct(fail, g1, g2) ==
    /\ pc = "new"
    /\ \E m \in {Max31856_init(M, args.tc_type, args.cr0, args.cr1,
                                fail, g1, g2)} :
           /\ Done(m, "__init__", 0, 0)
           /\ pc' = IF m.err = "none" THEN "ready" ELSE "failed"
    /\ UNCHANGED <<args, runtime, nops, mqtt>>

Call(after, name, a, b) ==
    /\ pc = "ready"
    /\ nops < MaxOps
    /\ \E m \in {after} : Done(m, name, a, b)
    /\ nops' = nops + 1
    /\ UNCHANGED <<pc, args, runtime, mqtt>>

\* What one bus read can meet: <<fail, glitch>>.  A transfer that raises
\* returns no bytes, so it has no glitch of its own.
ReadFates == {<<TRUE, "ok">>} \cup {<<FALSE, g>> : g \in Glitches}

\* The fates of a call that reads the chip only when read_chip is set.
Refresh == {<<FALSE, <<FALSE, "ok">>>>} \cup {<<TRUE, f>> : f \in ReadFates}

ReadData ==
    \E f \in ReadFates :
        Call(read_data(M, f[1], f[2]), "read_data", 0, 0)

OneShot ==
    \E failW \in BOOLEAN, f \in ReadFates :
        Call(one_shot(M, failW, f[1], f[2]), "one_shot", 0, 0)

Temperature ==
    \E r \in Refresh :
        Call(temperature(M, r[1], r[2][1], r[2][2]), "temperature",
             Bool(r[1]), 0)

ColdJunction ==
    \E r \in Refresh :
        Call(cold_junction(M, r[1], r[2][1], r[2][2]), "cold_junction",
             Bool(r[1]), 0)

Faults ==
    \E r \in Refresh :
        Call(faults(M, r[1], r[2][1], r[2][2], runtime), "faults",
             Bool(r[1]), 0)

ReadRegs ==
    \E start_addr \in 0..(NREGS - 1), f \in ReadFates :
        \E count \in 0..(NREGS - start_addr) :
            Call(read_regs(M, start_addr, count, f[1], f[2]), "read_regs",
                 start_addr, count)

WriteRegs ==
    \E start_addr \in 0..(NREGS - 1), fail \in BOOLEAN :
        \E count \in 0..(NREGS - start_addr) :
            Call(write_regs(M, start_addr, count, fail), "write_regs",
                 start_addr, count)

\* The chip finishes a conversion: its data registers take a new sample.
Convert ==
    /\ pc = "ready"
    /\ \E d \in Samples :
          /\ chip' = [a \in 0..(NREGS - 1) |->
                         IF a >= CJTH_REG THEN d[a - CJTH_REG + 1]
                         ELSE chip[a]]
          /\ chip' # chip
    /\ UNCHANGED <<pc, args, runtime, regs, cs, spi, bus, err, ret, op, nops,
                   origin, wire, broken, mqtt>>

(***************************************************************************)
(* Spec: a driver built with some arguments, then used through its public  *)
(* methods, with every bus transfer free to fail or to be glitched.        *)
(***************************************************************************)
\* The calls of __init__ tried: the defaults (as thermo_tx.py calls it), a
\* caller's own cr0 and cr1, and a type code tctypes does not hold.
Args(t, c0, c1) == [tc_type |-> t, cr0 |-> c0, cr1 |-> c1]
ArgSets ==
    { Args("K", CR0_DEFAULT, CR1_DEFAULT), Args("VG32", 0, 255),
      Args("X", CR0_DEFAULT, CR1_DEFAULT) }

InitWith(argsets, chips, levels, runtimes) ==
    /\ pc = "new"
    /\ args \in argsets
    /\ runtime \in runtimes
    /\ regs = <<>>
    /\ cs \in levels
    /\ spi = SpiOpened
    /\ chip \in chips
    /\ bus = <<>>
    /\ err = "none"
    /\ ret = NoRet
    /\ op = NoOp
    /\ nops = 0
    /\ origin = <<>>
    /\ wire = NoWire
    /\ broken = FALSE

Init == InitWith(ArgSets, PowerOn, {0, 1}, Runtimes) /\ mqtt = FALSE

ConstructAny ==
    \E fail \in 0..3, g1 \in Glitches, g2 \in Glitches :
        Construct(fail, g1, g2)

Next ==
    \/ ConstructAny
    \/ ReadData
    \/ OneShot
    \/ Temperature
    \/ ColdJunction
    \/ Faults
    \/ Convert

Spec == Init /\ [][Next]_vars


(***************************************************************************)
(* SpecInit: __init__ alone.  Type K is built with every pair of bytes as  *)
(* cr0 and cr1; every other type of tctypes, and one type code it does not *)
(* hold, with every byte as cr1 and the two cr0 of ArgSets.  No bus        *)
(* transfer fails; the read-back may be glitched.                          *)
(***************************************************************************)
AllArgSets ==
    [tc_type : {"K"}, cr0 : Byte, cr1 : Byte]
        \cup [tc_type : ValidTypes \cup {"X"}, cr0 : {CR0_DEFAULT, 0},
              cr1 : Byte]

InitInit ==
    InitWith(AllArgSets, PowerOn, {0}, {"micropython"}) /\ mqtt = FALSE

ConstructClean == \E g2 \in Glitches : Construct(0, "ok", g2)

NextInit == ConstructClean

SpecInit == InitInit /\ [][NextInit]_vars

(***************************************************************************)
(* SpecRegs: one direct call of write_regs or read_regs, with every        *)
(* start_addr and count that stay inside the 16 registers, as the first    *)
(* call on a driver built with the default arguments; the chip may have    *)
(* converted since, so that the mirror and the chip differ.                *)
(***************************************************************************)
FirstCall == nops = 0

InitRegs ==
    /\ InitWith({Args("K", CR0_DEFAULT, CR1_DEFAULT)}, PowerOn, {0, 1},
                {"micropython"})
    /\ mqtt = FALSE

ReadRegsOnce == FirstCall /\ ReadRegs

WriteRegsOnce == FirstCall /\ WriteRegs

NextRegs ==
    \/ ConstructClean
    \/ Convert
    \/ ReadRegsOnce
    \/ WriteRegsOnce

SpecRegs == InitRegs /\ [][NextRegs]_vars

(***************************************************************************)
(* SpecDecode: one call of a decoder, without refresh, on a driver built   *)
(* with the default arguments on a chip whose data registers 0x0A..0x0F    *)
(* hold: every pair of cold-junction bytes; every status byte; a grid of   *)
(* thermocouple bytes with the status byte.                                *)
(***************************************************************************)
TempBytes == {0, 1, 127, 128, 134, 144, 254, 255}
TempLow == {0, 121, 134, 224, 255}
TempStatus == {0, 17, 96, 160, 255}

ColdJunctionData == { <<hi, lo, 0, 0, 0, 0>> : hi \in Byte, lo \in Byte }
StatusData == { <<25, 0, 1, 144, 0, f>> : f \in Byte }
TempData ==
    { <<25, 0, b[1], b[2], b[3], b[4]>> :
        b \in TempBytes \X TempBytes \X TempLow \X TempStatus }

\* The driver as Max31856() with the defaults leaves it on a chip holding
\* the data d.
Built(d) ==
    Max31856_init([regs |-> <<>>, origin |-> <<>>, cs |-> 1,
                   spi |-> SpiOpened,
                   chip |-> ChipImage(PowerOnConfig, d), bus |-> <<>>,
                   err |-> "none", ret |-> NoRet],
                  "K", CR0_DEFAULT, CR1_DEFAULT, 0, "ok", "ok")

InitDecode ==
    /\ pc = "ready"
    /\ args = Args("K", CR0_DEFAULT, CR1_DEFAULT)
    /\ \/ \E d \in ColdJunctionData : \E m \in {Built(d)} :
             /\ runtime = "micropython"
             /\ regs = m.regs /\ cs = m.cs /\ spi = m.spi
             /\ chip = m.chip /\ bus = m.bus
             /\ origin = Rank(m.origin) /\ wire = Replay(NoWire, m.bus)
       \/ \E d \in StatusData \cup TempData : \E m \in {Built(d)} :
             /\ runtime \in Runtimes
             /\ regs = m.regs /\ cs = m.cs /\ spi = m.spi
             /\ chip = m.chip /\ bus = m.bus
             /\ origin = Rank(m.origin) /\ wire = Replay(NoWire, m.bus)
    /\ err = "none"
    /\ ret = NoRet
    /\ op = [name |-> "__init__", a |-> 0, b |-> 0]
    /\ nops = 0
    /\ broken = FALSE
    /\ mqtt = FALSE

DecodeTemperature ==
    FirstCall /\ Call(temperature(M, FALSE, FALSE, "ok"), "temperature", 0, 0)

DecodeColdJunction ==
    FirstCall
        /\ Call(cold_junction(M, FALSE, FALSE, "ok"), "cold_junction", 0, 0)

DecodeFaults ==
    FirstCall /\ Call(faults(M, FALSE, FALSE, "ok", runtime), "faults", 0, 0)

NextDecode ==
    \/ DecodeTemperature
    \/ DecodeColdJunction
    \/ DecodeFaults

SpecDecode == InitDecode /\ [][NextDecode]_vars

(***************************************************************************)
(* thermo_tx.py: the polling loop of main() (lines 65-91).  What it sends  *)
(* to the LED, the MQTT client and the display is logged on bus, with the  *)
(* text in tx; a topic is logged without the prefix `root`.                *)
(***************************************************************************)
EvLed(v) == [ev |-> "led", a |-> v, ok |-> TRUE, tx |-> <<>>, rx |-> <<>>]
EvPrint(t) == [ev |-> "print", a |-> 0, ok |-> TRUE, tx |-> t, rx |-> <<>>]
EvPublish(topic, msg) ==
    [ev |-> "mqtt.publish", a |-> 0, ok |-> TRUE, tx |-> <<topic, msg>>,
     rx |-> <<>>]
EvText(t, y) ==
    [ev |-> "disp.text", a |-> y, ok |-> TRUE, tx |-> <<t>>, rx |-> <<>>]

\* The hundredths of |x|, rounded to nearest (ties to even, as CPython's
\* formatting of a float does), for the value temperature() returns ...
TempHundredths(d) ==
    LET whole == d.digits[1] * 10000 + d.digits[2]
        half  == d.digits[3] = 5000 /\ d.digits[4] = 0 /\ d.digits[5] = 0
                    /\ d.digits[6] = 0
    IN  IF d.digits[3] < 5000 THEN whole
        ELSE IF half /\ whole % 2 = 0 THEN whole
        ELSE whole + 1

\* ... and for the value n / 256 cold_junction() returns.
ColdHundredths(c) ==
    LET a == (IF c.n < 0 THEN -c.n ELSE c.n) * 100
        q == a \div c.d
        r == a % c.d
    IN  IF 2 * r < c.d THEN q
        ELSE IF 2 * r = c.d /\ q % 2 = 0 THEN q
        ELSE q + 1

RECURSIVE PadLeft(_, _)
PadLeft(t, width) ==
    IF Len(t) >= width THEN t ELSE PadLeft(" " \o t, width)

\* '{:7.2f}'.format(x) for x of the given sign with h hundredths.
Format72(negative, h) ==
    LET cents == h % 100
    IN  PadLeft((IF negative THEN "-" ELSE "") \o ToString(h \div 100)
                    \o "." \o ToString(cents \div 10)
                    \o ToString(cents % 10),
                7)

\* A mutant of main_loop: cold_junction is asked to read the chip too.
main_loop_reread(m, fail, glitch, rt, client, tc_type) ==
    LET m1 == temperature(Log(Log(m, EvCall("time.sleep")), EvLed(0)),
                          TRUE, fail, glitch)
        m2 == cold_junction(m1, TRUE, FALSE, "ok")
        m3 == faults(m2, FALSE, FALSE, "ok", rt)
        tcs == Format72(m1.ret.sign < 0, TempHundredths(m1.ret))
        cjs == Format72(m2.ret.n < 0, ColdHundredths(m2.ret))
        f   == m3.ret[1]
        fs  == m3.ret[2]
    IN  IF m1.err # "none" THEN m1
        ELSE [m3 EXCEPT
                !.bus = @ \o <<EvPrint(<<"Temperatures:", tcs, cjs>>)>>
                    \o (IF ~client THEN <<>>
                        ELSE IF f # 0
                        THEN <<EvPrint(<<fs>>), EvPublish("fault", fs)>>
                        ELSE <<EvPublish("tc", tcs), EvPublish("cj", cjs)>>)
                    \o <<EvCall("disp.framebuf.fill"),
                         EvText("Type " \o tc_type, 0)>>
                    \o (IF f # 0
                        THEN <<EvText("Fault", 9), EvText(fs, 18)>>
                        ELSE <<EvText(tcs, 9), EvText(cjs, 18)>>)
                    \o <<EvCall("disp.show"), EvLed(1)>>,
                !.ret = [tc |-> m1.ret, cj |-> m2.ret, f |-> f, fs |-> fs]]

\* One iteration of `while True:` (lines 65-91).  client: whether mqtt is
\* set; rt: the Python it runs on.
main_loop(m, fail, glitch, rt, client, tc_type) ==
    LET m1 == temperature(Log(Log(m, EvCall("time.sleep")), EvLed(0)),
                          TRUE, fail, glitch)
        m2 == cold_junction(m1, FALSE, FALSE, "ok")
        m3 == faults(m2, FALSE, FALSE, "ok", rt)
        tcs == Format72(m1.ret.sign < 0, TempHundredths(m1.ret))
        cjs == Format72(m2.ret.n < 0, ColdHundredths(m2.ret))
        f   == m3.ret[1]
        fs  == m3.ret[2]
    IN  IF m1.err # "none" THEN m1
        ELSE [m3 EXCEPT
                !.bus = @ \o <<EvPrint(<<"Temperatures:", tcs, cjs>>)>>
                    \o (IF ~client THEN <<>>
                        ELSE IF f # 0
                        THEN <<EvPrint(<<fs>>), EvPublish("fault", fs)>>
                        ELSE <<EvPublish("tc", tcs), EvPublish("cj", cjs)>>)
                    \o <<EvCall("disp.framebuf.fill"),
                         EvText("Type " \o tc_type, 0)>>
                    \o (IF f # 0
                        THEN <<EvText("Fault", 9), EvText(fs, 18)>>
                        ELSE <<EvText(tcs, 9), EvText(cjs, 18)>>)
                    \o <<EvCall("disp.show"), EvLed(1)>>,
                !.ret = [tc |-> m1.ret, cj |-> m2.ret, f |-> f, fs |-> fs]]

\* An iteration that raises ends main().
Poll ==
    /\ pc = "ready"
    /\ nops < MaxOps
    /\ \E f \in ReadFates :
          \E m \in {main_loop(M, f[1], f[2], runtime, mqtt, args.tc_type)} :
              /\ Done(m, "main.loop", 0, 0)
              /\ pc' = IF m.err = "none" THEN "ready" ELSE "failed"
    /\ nops' = nops + 1
    /\ UNCHANGED <<args, runtime, mqtt>>

(***************************************************************************)
(* SpecMain: main() builds the driver with the configured type and polls;  *)
(* the chip converts between polls.  The WLAN is connected (mqtt is set)   *)
(* or not.                                                                 *)
(***************************************************************************)
\* Data registers at the first poll: the measurement of PowerOn; negative
\* temperatures with no fault; a cold junction of 0.125; the largest
\* thermocouple value.
MainData ==
    { <<25, 0, 1, 144, 0, 0>>, <<247, 0, 255, 254, 121, 0>>,
      <<0, 32, 0, 1, 134, 0>>, <<127, 255, 127, 255, 224, 0>> }

InitMain ==
    /\ InitWith({Args("K", CR0_DEFAULT, CR1_DEFAULT)},
                {ChipImage(PowerOnConfig, d) : d \in MainData}, {0, 1},
                Runtimes)
    /\ mqtt \in BOOLEAN

NextMain ==
    \/ ConstructAny
    \/ Poll
    \/ Convert

SpecMain == InitMain /\ [][NextMain]_vars

(***************************************************************************)
(* What the claims say, in terms of the bus.                               *)
(***************************************************************************)
IsCs(e, v) == e.ev = "cs" /\ e.a = v

\* A completed read transfer of count registers from address addr.
IsRead(e, addr, count) ==
    /\ e.ev = "spi.write_readinto"
    /\ e.ok
    /\ e.tx = <<addr>> \o [k \in 1..count |-> 0]
    /\ Len(e.rx) = count + 1

\* A completed write transfer of payload to the registers from addr on.
IsWrite(e, addr, payload) ==
    /\ e.ev = "spi.write"
    /\ e.ok
    /\ e.tx = <<addr + 128>> \o payload

\* No transfer of the last call raised.
NoBusFailure == \A i \in 1..Len(bus) : bus[i].ok

CountEv(name) == Cardinality({i \in 1..Len(bus) : bus[i].ev = name})

\* The type codes as the datasheet and the specification give them.
DocumentedCode(t) ==
    CASE t = "B" -> 0 [] t = "E" -> 1 [] t = "J" -> 2 [] t = "K" -> 3
      [] t = "N" -> 4 [] t = "R" -> 5 [] t = "S" -> 6 [] t = "T" -> 7
      [] t = "VG8" -> 8 [] t = "VG32" -> 12

DocumentedTypes ==
    {"B", "E", "J", "K", "N", "R", "S", "T", "VG8", "VG32"}

Constructed == pc = "ready" /\ op.name = "__init__"

(* C1: after one_shot() on a constructed driver (no bus transfer failing), *)
(* the mirror's CR0 has the autoconversion bit 0x80 clear and the one-shot *)
(* bit 0x40 set, and read_data() has been invoked exactly once, after the  *)
(* single-byte write of CR0 and the settling delay.  The code raises       *)
(* NameError at time.sleep, so read_data() is never reached.               *)
C1_OneShotThenReadData ==
    (pc = "ready" /\ op.name = "one_shot" /\ NoBusFailure) =>
        /\ (regs[CR0_REG + 1] \div 128) % 2 = 0
        /\ (regs[CR0_REG + 1] \div 64) % 2 = 1
        /\ CountEv("read_data") = 1
        /\ Len(bus) >= 5
        /\ IsCs(bus[1], 0)
        /\ IsWrite(bus[2], 0, <<regs[CR0_REG + 1]>>)
        /\ IsCs(bus[3], 1)
        /\ bus[4].ev = "time.sleep"
        /\ bus[5].ev = "read_data"

(* C2: for a thermocouple type that is not one of the ten documented ones, *)
(* construction fails with InvalidThermocoupleType and has issued no bus   *)
(* write transaction by then.  The code fails with the KeyError of the     *)
(* tctypes lookup.                                                         *)
C2_InvalidTypeRaisesInvalidThermocoupleType ==
    (op.name = "__init__" /\ args.tc_type \notin DocumentedTypes
        /\ NoBusFailure) =>
        /\ pc = "failed"
        /\ err = "InvalidThermocoupleType"
        /\ CountEv("spi.write") = 0

(* C9: when the bus transfer inside write_regs or read_regs raises,        *)
(* chip-select is back at 1 by the time the failure reaches the caller.    *)
(* The code has no try/finally around the transfer: the pin stays at 0.    *)
C9_ChipSelectReleasedOnFailure ==
    err = "OSError" => cs = 1

(* C10: a successful construction does exactly this on the pin and the     *)
(* bus, in this order: chip-select to 1, the bus mode set, one read of all *)
(* 16 registers from address 0, one write of registers 0..2 carrying the   *)
(* caller's CR0 (0x93 by default), the merged CR1 and a fault mask of 0,   *)
(* one read of registers 0..2; each transfer between chip-select 0 and 1.  *)
C10_ConstructionOrder ==
    Constructed =>
        /\ Len(bus) = 11
        /\ IsCs(bus[1], 1)
        /\ bus[2].ev = "spi.init" /\ spi = <<1000000, 0, 1>>
        /\ IsCs(bus[3], 0) /\ IsRead(bus[4], 0, 16) /\ IsCs(bus[5], 1)
        /\ IsCs(bus[6], 0)
        /\ IsWrite(bus[7], 0,
                   <<args.cr0,
                     (args.cr1 \div 16) * 16 + DocumentedCode(args.tc_type),
                     0>>)
        /\ IsCs(bus[8], 1)
        /\ IsCs(bus[9], 0) /\ IsRead(bus[10], 0, 3) /\ IsCs(bus[11], 1)
        /\ CR0_DEFAULT = 147

C10_Witness ==
    Constructed /\ args.cr0 = 147 /\ args.tc_type = "K" /\ NoBusFailure
        /\ bus[7].tx = <<128, 147, 67, 0>>

(* C3: for each of the ten documented thermocouple types and every cr0 and *)
(* cr1 in 0..255, construction completes (no bus transfer failing) and,    *)
(* when the read-back of registers 0..2 returns the bytes written, the low *)
(* nibble of the mirror's CR1 is the type's documented code.               *)
C3_TypeCodeInLowNibble ==
    (op.name = "__init__" /\ args.tc_type \in DocumentedTypes
        /\ NoBusFailure) =>
        /\ pc = "ready"
        /\ Tail(bus[10].rx) = Tail(bus[7].tx) =>
              regs[CR1_REG + 1] % 16 = DocumentedCode(args.tc_type)

C3_Witness ==
    Constructed /\ args.tc_type = "VG32" /\ args.cr1 = 255
        /\ Tail(bus[10].rx) = Tail(bus[7].tx)
        /\ regs[CR1_REG + 1] = 252

(* C4: the CR1 byte written to the chip during construction is the merge   *)
(* of the caller's averaging bits and the type code: its high nibble is    *)
(* that of cr1 whatever the type, its low nibble the type code whatever    *)
(* cr1; cr1 = 0x40 with type K gives exactly 0x43.                         *)
C4_MergedCR1OnTheBus ==
    \A i \in 1..Len(bus) :
        (op.name = "__init__" /\ bus[i].ev = "spi.write") =>
            /\ Len(bus[i].tx) = 4
            /\ bus[i].tx[3] \div 16 = args.cr1 \div 16
            /\ bus[i].tx[3] % 16 = DocumentedCode(args.tc_type)
            /\ (args.cr1 = 64 /\ args.tc_type = "K") => bus[i].tx[3] = 67

C4_Witness ==
    Constructed /\ args.cr1 = 64 /\ args.tc_type = "K"
        /\ bus[7].ev = "spi.write" /\ bus[7].tx[3] = 67


(* C5: for every start_addr and count with start_addr + count <= 16,       *)
(* write_regs(start_addr, count) leaves every byte of the mirror as it     *)
(* was, and read_regs(start_addr, count) changes no byte of the mirror at  *)
(* an address outside [start_addr, start_addr + count).                    *)
C5_RangeFrame ==
    [][ (op'.name \in {"write_regs", "read_regs"} /\ nops' = nops + 1
            /\ op'.a + op'.b <= 16) =>
          /\ Len(regs') = Len(regs)
          /\ op'.name = "write_regs" => regs' = regs
          /\ op'.name = "read_regs" =>
                \A k \in 0..15 :
                    (k < op'.a \/ k >= op'.a + op'.b) =>
                        regs'[k + 1] = regs[k + 1] ]_vars

C5_Witness ==
    /\ op = [name |-> "read_regs", a |-> 10, b |-> 6]
    /\ err = "none"
    /\ regs = <<147, 67, 0, 127, 192, 127, 255, 128, 0, 0,
                247, 0, 255, 254, 121, 96>>

\* The names of the fault bits from bit 0 to bit 7, as the specification
\* lists them.
FaultNamesAscending ==
    <<"open", "OV/UV", "tclow", "tchigh", "cjlow", "cjhigh", "tcrange",
      "cjrange">>

Pow2(n) == IF n = 0 THEN 1 ELSE IF n = 1 THEN 2 ELSE IF n = 2 THEN 4
           ELSE IF n = 3 THEN 8 ELSE IF n = 4 THEN 16 ELSE IF n = 5 THEN 32
           ELSE IF n = 6 THEN 64 ELSE 128

RECURSIVE AscendingDescription(_, _)
AscendingDescription(f, bit) ==
    IF bit > 7 THEN ""
    ELSE LET rest == AscendingDescription(f, bit + 1)
         IN  IF (f \div Pow2(bit)) % 2 = 0 THEN rest
             ELSE IF rest = "" THEN FaultNamesAscending[bit + 1]
             ELSE FaultNamesAscending[bit + 1] \o "+" \o rest

(* C6: for every status byte f at mirror address 0x0F, faults() returns    *)
(* (0, '') when f = 0 and otherwise f with the '+'-joined names of exactly *)
(* the bits set in f, in ascending bit order; 0x11 gives (17,              *)
(* 'open+cjlow').  The code walks a plain dict, whose order on MicroPython *)
(* is that of its hash table: 0x09 gives 'tchigh+open'.                    *)
C6_FaultsAscending ==
    (op.name = "faults" /\ err = "none") =>
        /\ ret = <<regs[16], AscendingDescription(regs[16], 0)>>
        /\ regs[16] = 0 => ret = <<0, "">>
        /\ regs[16] = 17 => ret = <<17, "open+cjlow">>

\* t * 10^6 / 2^20 = t * 15625 / 16384, rounded down, for a signed 32-bit t.
MicroDegreesOf(t) ==
    (t \div 16384) * 15625 + ((t % 16384) * 15625) \div 16384

\* The big-endian two's-complement value of the four bytes from 0x0C on.
Raw32 ==
    LET u24 == regs[13] * 65536 + regs[14] * 256 + regs[15]
    IN  (IF u24 >= 8388608 THEN u24 - 16777216 ELSE u24) * 256 + regs[16]

Near(x, y, tol) == x - y <= tol /\ y - x <= tol

(* C7, as claimed: temperature() decodes the four mirror bytes from 0x0C   *)
(* as a big-endian signed 32-bit integer and scales it so that the raw     *)
(* value 0x000186A0 (100000) yields about 95.37 degrees (tolerance 0.01)   *)
(* and 0xFFFE7960 (-100000) about -95.37 degrees.                          *)
C7_Original ==
    (op.name = "temperature" /\ err = "none") =>
        /\ Raw32 = 100000 => Near(MicroDegrees(ret), 95370000, 10000)
        /\ Raw32 = -100000 => Near(MicroDegrees(ret), -95370000, 10000)

(* C7, amended: temperature() decodes the four mirror bytes from 0x0C as a *)
(* big-endian signed 32-bit integer and multiplies it by 9.53674316406e-7  *)
(* (2^-20), so that the raw value 0x000186A0 (100000) yields about 0.09537 *)
(* degrees (tolerance 0.00001) and 0xFFFE7960 (-100000) about -0.09537     *)
(* degrees.                                                                *)
C7_TemperatureScale ==
    (op.name = "temperature" /\ err = "none") =>
        /\ Near(MicroDegrees(ret), MicroDegreesOf(Raw32), 1)
        /\ Raw32 = 100000 => Near(MicroDegrees(ret), 95370, 10)
        /\ Raw32 = -100000 => Near(MicroDegrees(ret), -95370, 10)

C7_Witness ==
    /\ op.name = "temperature" /\ err = "none"
    /\ SubSeq(regs, 13, 16) = <<255, 254, 121, 96>>
    /\ Raw32 = -100000
    /\ MicroDegrees(ret) = -95367

(* C8: for every pair of bytes at mirror addresses 0x0A and 0x0B,          *)
(* cold_junction() returns their big-endian two's-complement 16-bit value  *)
(* divided by 256: 0x1900 yields exactly 25.0, 0xF700 exactly -9.0.        *)
C8_ColdJunctionScale ==
    (op.name = "cold_junction" /\ err = "none") =>
        LET u == regs[11] * 256 + regs[12]
        IN  /\ ret.d = 256
            /\ ret.n = IF u >= 32768 THEN u - 65536 ELSE u
            /\ u = 6400 => ret.n = 25 * ret.d
            /\ u = 63232 => ret.n = (-9) * ret.d

C8_Witness ==
    /\ op.name = "cold_junction" /\ err = "none"
    /\ regs[11] = 247 /\ regs[12] = 0
    /\ ret = [n |-> -2304, d |-> 256]

\* The events of the last call that are a bus transfer, completed or not.
Transfers ==
    {i \in 1..Len(bus) : bus[i].ev \in {"spi.write", "spi.write_readinto"}}

Assertions == {i \in 1..Len(bus) : IsCs(bus[i], 0)}

(* C11: read_data() makes exactly one read_regs call, that is exactly one  *)
(* bus transaction between chip-select 0 and 1, of 6 data bytes from the   *)
(* cold-junction-high register 0x0A on; the cold-junction bytes and the    *)
(* thermocouple bytes of the mirror are refreshed together, by that one    *)
(* transaction.                                                            *)
C11_ReadDataOneTransaction ==
    (pc = "ready" /\ op.name = "read_data") =>
        /\ Cardinality(Transfers) = 1
        /\ Cardinality(Assertions) = 1
        /\ CountEv("spi.write") = 0
        /\ bus[1].ev = "read_data" /\ IsCs(bus[2], 0)
        /\ bus[3].tx = <<10, 0, 0, 0, 0, 0, 0>>
        /\ err = "none" =>
              /\ Len(bus) = 4
              /\ IsRead(bus[3], CJTH_REG, 6) /\ IsCs(bus[4], 1)
              /\ SubSeq(regs, CJTH_REG + 1, SR_REG + 1) = Tail(bus[3].rx)
              /\ \A k \in (CJTH_REG + 1)..(SR_REG + 1) :
                    origin[k] > 0 /\ origin[k] = origin[CJTH_REG + 1]

C11_Witness ==
    /\ pc = "ready" /\ op.name = "read_data" /\ err = "none"
    /\ SubSeq(regs, 11, 16) = <<247, 0, 255, 254, 121, 96>>
    /\ bus[3].rx = <<255, 247, 0, 255, 254, 121, 96>>
    /\ origin = <<2, 2, 2, 1, 1, 1, 1, 1, 1, 1, 3, 3, 3, 3, 3, 3>>

(* C12: for every start_addr in 0..15 and count with start_addr + count   *)
(* <= 16, the transaction of write_regs is count + 1 bytes: start_addr     *)
(* with bit 7 set, then mirror[start_addr .. start_addr + count - 1]; the  *)
(* transaction of read_regs is count + 1 bytes whose first is the bare     *)
(* start_addr, bit 7 clear, and the count bytes received after the address *)
(* byte are what mirror[start_addr .. start_addr + count - 1] then holds.  *)
C12_TransactionBytes ==
    (op.name \in {"write_regs", "read_regs"} /\ op.a + op.b <= 16) =>
        /\ Cardinality(Transfers) = 1
        /\ IsCs(bus[1], 0)
        /\ Len(bus[2].tx) = op.b + 1
        /\ op.name = "write_regs" =>
              /\ bus[2].ev = "spi.write"
              /\ (bus[2].tx[1] \div 128) % 2 = 1
              /\ bus[2].tx[1] % 128 = op.a
              /\ Tail(bus[2].tx) = SubSeq(regs, op.a + 1, op.a + op.b)
        /\ op.name = "read_regs" =>
              /\ bus[2].ev = "spi.write_readinto"
              /\ bus[2].tx[1] = op.a
              /\ (bus[2].tx[1] \div 128) % 2 = 0
              /\ err = "none" =>
                    /\ Len(bus[2].rx) = op.b + 1
                    /\ SubSeq(regs, op.a + 1, op.a + op.b)
                          = Tail(bus[2].rx)

C12_Witness ==
    /\ op = [name |-> "write_regs", a |-> 1, b |-> 2]
    /\ err = "none"
    /\ bus[2].tx = <<129, 67, 0>>

Decoders == {"temperature", "cold_junction", "faults"}

(* C13: temperature(), cold_junction() and faults() called without refresh *)
(* (read_chip false) issue no bus transaction, leave chip-select as it was *)
(* and leave every byte of the mirror unchanged; called with refresh they  *)
(* issue exactly one read_data transaction, and decode the mirror as that  *)
(* transaction left it.                                                    *)
C13_DecodeRefresh ==
    [][ (op'.name \in Decoders /\ nops' = nops + 1) =>
          /\ op'.a = 0 =>
                bus' = <<>> /\ cs' = cs /\ regs' = regs /\ err' = "none"
          /\ op'.a = 1 =>
                /\ Len(bus') >= 3
                /\ bus'[1].ev = "read_data" /\ IsCs(bus'[2], 0)
                /\ bus'[3].ev = "spi.write_readinto"
                /\ bus'[3].tx = <<10, 0, 0, 0, 0, 0, 0>>
                /\ \A i \in 1..Len(bus') :
                      bus'[i].ev \in {"spi.write", "spi.write_readinto",
                                     "read_data"} => i \in {1, 3}
                /\ err' = "none" =>
                      /\ Len(bus') = 4 /\ IsCs(bus'[4], 1)
                      /\ SubSeq(regs', 11, 16) = Tail(bus'[3].rx)
          /\ err' = "none" =>
                /\ op'.name = "temperature" =>
                      ret' = ScaleTemp(UnpackBE32(SubSeq(regs', 13, 16)))
                /\ op'.name = "cold_junction" =>
                      ret'.n = UnpackBE16(SubSeq(regs', 11, 12))
                /\ op'.name = "faults" => ret'[1] = regs'[16] ]_vars

C13_Witness ==
    /\ op = [name |-> "temperature", a |-> 1, b |-> 0]
    /\ err = "none"
    /\ Len(bus) = 4
    /\ MicroDegrees(ret) = -95367

(* C14: when a bus transfer fails, the driver propagates the failure after *)
(* exactly one transfer attempt: the transfer that raised is the only one  *)
(* that did and the last thing the call does on the bus, and the call ends *)
(* with that error.  A failed read_regs leaves every byte of the mirror as *)
(* it was before the call: as the caller left it for read_data and the     *)
(* decoders, all zero for the first read of __init__, the first read's     *)
(* bytes with CR0, CR1 and MASK assigned for its read-back.                *)
C14_NoRetry ==
    [][ Raised(bus') =>
          LET n == Len(bus')
          IN  /\ err' = "OSError"
              /\ pc = "new" => pc' = "failed"
              /\ ~bus'[n].ok
              /\ \A i \in 1..(n - 1) : bus'[i].ok
              /\ IsCs(bus'[n - 1], 0)
              /\ bus'[n].ev = "spi.write_readinto" =>
                    regs' = IF pc # "new" THEN regs
                            ELSE IF n = 4 THEN [k \in 1..16 |-> 0]
                            ELSE SubSeq(bus'[7].tx, 2, 4)
                                    \o SubSeq(bus'[4].rx, 5, 17) ]_vars

C14_Witness ==
    /\ pc = "ready" /\ op.name = "read_data" /\ err = "OSError"
    /\ Len(bus) = 3 /\ ~bus[3].ok
    /\ regs[11] = 25 /\ chip[10] = 247

(* C15: in every reachable state where no bus transfer has failed, a byte  *)
(* transfer happens only while chip-select is 0, each assertion of         *)
(* chip-select brackets exactly one transfer, and chip-select is 1         *)
(* whenever no driver operation is in progress, from the first step of     *)
(* construction (which drives it to 1) onward.                             *)
C15_ChipSelectBrackets ==
    (pc # "new" /\ ~broken) =>
        /\ cs = 1
        /\ op.name = "__init__" => IsCs(bus[1], 1)
        /\ \A i \in Transfers :
              /\ i > 1 /\ IsCs(bus[i - 1], 0)
              /\ i < Len(bus) /\ IsCs(bus[i + 1], 1)
        /\ \A i \in Assertions : i < Len(bus) /\ i + 1 \in Transfers

C15_Witness ==
    /\ pc = "ready" /\ ~broken /\ nops = 2 /\ cs = 1
    /\ op.name = "faults" /\ op.a = 1
    /\ Transfers = {3} /\ Assertions = {2}

(* C16: whenever a public operation of a constructed driver has ended,     *)
(* every one of the 16 mirror bytes equals the value most recently         *)
(* transferred for its address: the last byte written to the chip there or *)
(* the last byte read from it, whichever was later.  one_shot() changes    *)
(* the mirror's CR0 before it writes it: when that write raises, the       *)
(* mirror holds a CR0 that was never transferred.                          *)
C16_MirrorIsLastTransferred ==
    pc = "ready" => \A k \in 1..NREGS : regs[k] = wire[k]

\* The mirror bytes (as indices of regs) each decoder decodes: lines 165,
\* 193 and 174.
DecodedRange(name) ==
    IF name = "temperature" THEN (LTCBH_REG + 1)..(LTCBH_REG + 4)
    ELSE IF name = "cold_junction" THEN (CJTH_REG + 1)..(CJTL_REG + 1)
    ELSE {SR_REG + 1}

(* C17: for any sequence of operations on a constructed driver, whenever   *)
(* temperature(), cold_junction() or faults() decodes, all mirror bytes in *)
(* the range it decodes were last stored by one and the same bus read,     *)
(* which covered the whole range; no decode mixes bytes of two reads.      *)
C17_DecodeFromOneRead ==
    (pc = "ready" /\ op.name \in Decoders /\ err = "none") =>
        \E n \in 1..NREGS :
            \A k \in DecodedRange(op.name) : origin[k] = n

C17_Witness ==
    /\ pc = "ready" /\ op = [name |-> "temperature", a |-> 0, b |-> 0]
    /\ err = "none" /\ nops = 2
    /\ origin = <<2, 2, 2, 1, 1, 1, 1, 1, 1, 1, 3, 3, 3, 3, 3, 3>>
    /\ SubSeq(regs, 11, 16) = <<247, 0, 255, 254, 121, 96>>

(* C18: the register mirror has exactly 16 bytes in every reachable state  *)
(* of a driver: no sequence of construction, read_data, one_shot,          *)
(* temperature, cold_junction and faults calls changes its length, since   *)
(* every read_regs call they make has start_addr + count <= 16 and         *)
(* receives exactly count data bytes after the address byte.               *)
C18_MirrorLength ==
    /\ pc # "new" => Len(regs) = 16
    /\ \A i \in 1..Len(bus) :
          bus[i].ev = "spi.write_readinto" =>
              /\ bus[i].tx[1] + (Len(bus[i].tx) - 1) <= 16
              /\ bus[i].ok => Len(Tail(bus[i].rx)) = Len(bus[i].tx) - 1

C18_Witness ==
    /\ pc = "ready" /\ nops = 2 /\ Len(regs) = 16
    /\ op.name = "cold_junction" /\ op.a = 1 /\ err = "none"
    /\ bus[3].tx[1] + (Len(bus[3].tx) - 1) = 16
    /\ ret = [n |-> -2304, d |-> 256]

(* C19: the value temperature() returns is independent of the fault status *)
(* register: for two mirrors that agree on the thermocouple bytes 0x0C to  *)
(* 0x0E and differ only in the status byte 0x0F, it returns the same       *)
(* value.  The code unpacks the four bytes from 0x0C on, so the status     *)
(* byte is the low byte of the integer it scales.                          *)
C19_TemperatureIgnoresStatus ==
    (op.name = "temperature" /\ err = "none") =>
        \A f \in Byte :
            temperature([M EXCEPT !.regs[SR_REG + 1] = f],
                        FALSE, FALSE, "ok").ret = ret

\* The texts of the events named ev in the last call's log, in order.
TextsOf(ev) ==
    LET sel == SelectSeq(bus, LAMBDA e : e.ev = ev)
    IN  [i \in 1..Len(sel) |-> sel[i].tx]

(* C20: in every iteration of the polling loop of main(), exactly one bus  *)
(* transaction is issued, the read_data of temperature(read_chip=True),    *)
(* and the thermocouple temperature, the cold-junction temperature and the *)
(* fault value published and displayed in that iteration are all decoded   *)
(* from that one transaction's bytes; when the fault value is nonzero only *)
(* the fault description is published, otherwise only the two              *)
(* temperatures.                                                           *)
C20_PollOneTransaction ==
    op.name = "main.loop" =>
        /\ Cardinality(Transfers) = 1
        /\ Cardinality(Assertions) = 1
        /\ CountEv("read_data") = 1
        /\ bus[3].ev = "read_data" /\ IsCs(bus[4], 0)
        /\ bus[5].ev = "spi.write_readinto"
        /\ bus[5].tx = <<10, 0, 0, 0, 0, 0, 0>>
        /\ err = "none" =>
              LET rx  == Tail(bus[5].rx)
                  tcs == Format72(ret.tc.sign < 0, TempHundredths(ret.tc))
                  cjs == Format72(ret.cj.n < 0, ColdHundredths(ret.cj))
              IN  /\ Len(rx) = 6
                  /\ ret.tc = ScaleTemp(UnpackBE32(SubSeq(rx, 3, 6)))
                  /\ ret.cj = [n |-> UnpackBE16(SubSeq(rx, 1, 2)), d |-> 256]
                  /\ ret.f = rx[6]
                  /\ ret.fs = Join(FaultList(DictItems(faults_table,
                                                       runtime), rx[6], 1))
                  /\ TextsOf("mqtt.publish") =
                        IF ~mqtt THEN <<>>
                        ELSE IF ret.f # 0 THEN << <<"fault", ret.fs>> >>
                        ELSE << <<"tc", tcs>>, <<"cj", cjs>> >>
                  /\ TextsOf("disp.text") =
                        IF ret.f # 0
                        THEN << <<"Type " \o args.tc_type>>, <<"Fault">>,
                                <<ret.fs>> >>
                        ELSE << <<"Type " \o args.tc_type>>, <<tcs>>,
                                <<cjs>> >>

C20_Witness ==
    /\ op.name = "main.loop" /\ err = "none" /\ mqtt /\ pc = "ready"
    /\ bus[5].rx = <<255, 247, 0, 255, 254, 121, 0>>
    /\ TextsOf("mqtt.publish") = << <<"tc", "  -0.10">>, <<"cj", "  -9.00">> >>

=============================================================================
